---- MODULE Spec2Model ----
(***************************************************************************)
(* Particle field of the "Koridor" landing page: the Particle and          *)
(* ParticleSystem classes of assets/js/particles.js together with the      *)
(* host script (main module) that initialises the system and forwards      *)
(* pointer and button events to it.                                        *)
(*                                                                         *)
(* Numbers.  JavaScript numbers are modelled in fixed point: positions     *)
(* and distances are integers counting 1/FP of a pixel; velocities and     *)
(* forces, which are as small as 0.01 pixel per frame, count 1/(FP * FP)   *)
(* of a pixel per frame; products with a fractional coefficient and the    *)
(* displacement added to a position are truncated toward zero.  remaining  *)
(* life is counted in units of 1/ExplosionLifetime, so that the explosion  *)
(* decay 1/lifetime is exactly one unit.  Math.random() is a draw k from   *)
(* 0..RandDen-1 standing for k/RandDen in [0,1).  Particle size and        *)
(* colour only feed the drawing calls and are not part of the state.       *)
(***************************************************************************)
EXTENDS Integers, Sequences, FiniteSets, TLC

\* ------------------------------------------------------------------ bounds
\* fixed-point units per pixel
FP == 100
\* Math.random() resolution: a draw k stands for k / RandDen
RandDen == 4
\* PARTICLE_CONFIG.particleCount (50 in the source), scaled down
ParticleCount == 2
\* PARTICLE_CONFIG.explosion.particleCount (20 in the source), scaled down
ExplosionCount == 2
\* largest viewport edge in pixels
MaxSize == 240
\* animate() calls explored in Spec, the one made by start() included
MaxFrames == 2
\* click events explored
MaxClicks == 2
\* pointer-move events explored
MaxMoves == 1
\* frame callbacks that may be pending at once
MaxPending == 2
\* ticks counted in SpecBurst; the ticks after these run uncounted
MaxTicks == 210
MaxHandles == 6

\* ------------------------------------------------- PARTICLE_CONFIG values
ConnectionDistance == 150
GravityPct == 5
FrictionPct == 99
BouncePct == 80
AttractionRadius == 100
RepulsionRadius == 50
AttractionForcePct == 2
RepulsionForcePct == 10
ExplosionSpeed == 5
ExplosionLifetime == 1000

\* ------------------------------------------------------------- arithmetic
Min(a, b) == IF a < b THEN a ELSE b
Max(a, b) == IF a > b THEN a ELSE b

\* a / b truncated toward zero (b > 0)
Trunc(a, b) == IF a >= 0 THEN a \div b ELSE -((-a) \div b)

\* v * (pct / 100)
Pct(v, pct) == Trunc(v * pct, 100)

\* one pixel per frame in velocity units, and the displacement (in position
\* units) that a velocity v adds to a coordinate in one frame
VelOne == FP * FP
Displacement(v) == Trunc(v, FP)

RECURSIVE SqrtIter(_, _, _)
SqrtIter(n, lo, hi) ==
    IF lo >= hi THEN lo
    ELSE LET mid == (lo + hi + 1) \div 2
         IN  IF mid * mid <= n THEN SqrtIter(n, mid, hi)
                               ELSE SqrtIter(n, lo, mid - 1)

\* Math.sqrt on fixed-point squares: floor of the square root
Sqrt(n) == SqrtIter(n, 0, 46340)

\* Math.sqrt(dx * dx + dy * dy)
Dist(dx, dy) == Sqrt(dx * dx + dy * dy)

\* Math.sin(2 * PI * k / m) * FP, 0 <= k < m, by Bhaskara's rational
\* approximation 16u(1-u) / (5 - 4u(1-u)) of sin(u * PI) on [0, 1]
HalfSin(a, b) == (16 * a * (b - a) * FP) \div (5 * b * b - 4 * a * (b - a))
Sin(k, m) == LET j == k % m
             IN  IF 2 * j <= m THEN HalfSin(2 * j, m)
                               ELSE -HalfSin(2 * j - m, m)
\* Math.cos(2 * PI * k / m) * FP as the sine a quarter turn ahead
Cos(k, m) == Sin(4 * k + m, 4 * m)

\* ---------------------------------------------------------------- Particle
\* life = 1 in the unit 1/ExplosionLifetime
LifeOne == ExplosionLifetime

\* a decay drawn from 0.004 .. 0.008
BaseDecay_Slow(r) == (4 * LifeOne) \div 1000 + (r * 4 * LifeOne) \div (1000 * RandDen)

\* this.decay = 0.005 + Math.random() * 0.005
BaseDecay(r) == (5 * LifeOne) \div 1000 + (r * 5 * LifeOne) \div (1000 * RandDen)

\* new Particle(x, y) with the random draws rvx, rvy, rd
NewParticle(id, x, y, rvx, rvy, rd) ==
    [id |-> id, x |-> x, y |-> y,
     vx |-> Trunc((2 * rvx - RandDen) * VelOne, RandDen),
     vy |-> Trunc((2 * rvy - RandDen) * VelOne, RandDen),
     alpha |-> LifeOne, life |-> LifeOne,
     decay |-> BaseDecay(rd),
     connections |-> << >>]

\* Particle.update that reflects at the left and top edges only
Update_LowEdgesOnly(p, w, h) ==
    LET vy1 == p.vy + Pct(VelOne, GravityPct)
        vx2 == Pct(p.vx, FrictionPct)
        vy2 == Pct(vy1, FrictionPct)
        x1  == p.x + Displacement(vx2)
        y1  == p.y + Displacement(vy2)
        l1  == p.life - p.decay
        hitX == x1 < 0
        hitY == y1 < 0
    IN  [p EXCEPT !.vx = IF hitX THEN Pct(vx2, -BouncePct) ELSE vx2,
                  !.vy = IF hitY THEN Pct(vy2, -BouncePct) ELSE vy2,
                  !.x = IF hitX THEN Max(0, Min(w * FP, x1)) ELSE x1,
                  !.y = IF hitY THEN Max(0, Min(h * FP, y1)) ELSE y1,
                  !.life = l1,
                  !.alpha = Max(0, l1)]

\* Particle.update that decays every particle by the same fixed amount
\* instead of the particle's own decay rate
Update_FixedDecay(p, w, h) ==
    LET vy1 == p.vy + Pct(VelOne, GravityPct)
        vx2 == Pct(p.vx, FrictionPct)
        vy2 == Pct(vy1, FrictionPct)
        x1  == p.x + Displacement(vx2)
        y1  == p.y + Displacement(vy2)
        l1  == p.life - BaseDecay(0)
        hitX == x1 < 0 \/ x1 > w * FP
        hitY == y1 < 0 \/ y1 > h * FP
    IN  [p EXCEPT !.vx = IF hitX THEN Pct(vx2, -BouncePct) ELSE vx2,
                  !.vy = IF hitY THEN Pct(vy2, -BouncePct) ELSE vy2,
                  !.x = IF hitX THEN Max(0, Min(w * FP, x1)) ELSE x1,
                  !.y = IF hitY THEN Max(0, Min(h * FP, y1)) ELSE y1,
                  !.life = l1,
                  !.alpha = Max(0, l1)]

\* Particle.update that puts the particle on the edge it crossed but leaves
\* its velocity as it was
Update_KeepsVelocity(p, w, h) ==
    LET vy1 == p.vy + Pct(VelOne, GravityPct)
        vx2 == Pct(p.vx, FrictionPct)
        vy2 == Pct(vy1, FrictionPct)
        x1  == p.x + Displacement(vx2)
        y1  == p.y + Displacement(vy2)
        l1  == p.life - p.decay
    IN  [p EXCEPT !.vx = vx2,
                  !.vy = vy2,
                  !.x = Max(0, Min(w * FP, x1)),
                  !.y = Max(0, Min(h * FP, y1)),
                  !.life = l1,
                  !.alpha = Max(0, l1)]

\* Particle.update with the viewport w x h (pixels)
Update(p, w, h) ==
    LET vy1 == p.vy + Pct(VelOne, GravityPct)
        vx2 == Pct(p.vx, FrictionPct)
        vy2 == Pct(vy1, FrictionPct)
        x1  == p.x + Displacement(vx2)
        y1  == p.y + Displacement(vy2)
        l1  == p.life - p.decay
        hitX == x1 < 0 \/ x1 > w * FP
        hitY == y1 < 0 \/ y1 > h * FP
    IN  [p EXCEPT !.vx = IF hitX THEN Pct(vx2, -BouncePct) ELSE vx2,
                  !.vy = IF hitY THEN Pct(vy2, -BouncePct) ELSE vy2,
                  !.x = IF hitX THEN Max(0, Min(w * FP, x1)) ELSE x1,
                  !.y = IF hitY THEN Max(0, Min(h * FP, y1)) ELSE y1,
                  !.life = l1,
                  !.alpha = Max(0, l1)]

\* Particle.applyForce that also displaces the particle
ApplyForce_MovesToo(p, fx, fy) ==
    [p EXCEPT !.vx = @ + fx, !.vy = @ + fy,
              !.x = @ + Displacement(fx), !.y = @ + Displacement(fy)]

\* Particle.applyForce
ApplyForce(p, fx, fy) == [p EXCEPT !.vx = @ + fx, !.vy = @ + fy]

\* Particle.isDead with a strict comparison
IsDead_Strict(p) == p.alpha < 0

\* Particle.isDead that fires one decay step early
IsDead_Early(p) == p.alpha <= p.decay

\* Particle.isDead
IsDead(p) == p.alpha <= 0

\* ---------------------------------------------------------- ParticleSystem
\* cos(atan2(dy, dx)) * force and sin(atan2(dy, dx)) * force;
\* atan2(0, 0) = 0 gives the direction (1, 0)
Along(force, d, dist) == IF dist = 0 THEN 0 ELSE Trunc(force * d, dist)
AlongX(force, dx, dist) == IF dist = 0 THEN force ELSE Along(force, dx, dist)

\* the forEach body with two independent ifs instead of if / else if: a
\* particle inside the repulsion radius receives the attraction force too
MouseForce_Both(p, mx, my) ==
    LET dx == mx - p.x
        dy == my - p.y
        distance == Dist(dx, dy)
        rr == RepulsionRadius * FP
        ar == AttractionRadius * FP
        fr == Trunc(Pct(VelOne, RepulsionForcePct) * (rr - distance), rr)
        fa == Trunc(Pct(VelOne, AttractionForcePct) * distance, ar)
        p1 == IF distance < rr
              THEN ApplyForce(p, AlongX(fr, dx, distance), Along(fr, dy, distance))
              ELSE p
    IN  IF distance < ar
        THEN ApplyForce(p1, AlongX(fa, dx, distance), Along(fa, dy, distance))
        ELSE p1

\* the body of the forEach of applyMouseForces for one particle
MouseForce(p, mx, my) ==
    LET dx == mx - p.x
        dy == my - p.y
        distance == Dist(dx, dy)
        rr == RepulsionRadius * FP
        ar == AttractionRadius * FP
    IN  IF distance < rr
        THEN LET force == Trunc(Pct(VelOne, RepulsionForcePct) * (rr - distance), rr)
             IN  ApplyForce(p, AlongX(force, dx, distance), Along(force, dy, distance))
        ELSE IF distance < ar
        THEN LET force == Trunc(Pct(VelOne, AttractionForcePct) * distance, ar)
             IN  ApplyForce(p, AlongX(force, dx, distance), Along(force, dy, distance))
        ELSE p

\* applyMouseForces without the early return on !this.isMouseOver
ApplyMouseForces_IgnoresFlag(ps, over, mx, my) ==
    [i \in DOMAIN ps |-> MouseForce(ps[i], mx, my)]

\* ParticleSystem.applyMouseForces
ApplyMouseForces(ps, over, mx, my) ==
    IF ~over THEN ps
    ELSE [i \in DOMAIN ps |-> MouseForce(ps[i], mx, my)]

\* updateConnections whose inner loop runs over every other particle, so
\* that a pair is pushed into both lists
ConnectionsOf_BothWays(ps, i) ==
    LET others == SelectSeq([k \in 1..Len(ps) |-> k], LAMBDA j : j # i)
        Gap(j) == Dist(ps[i].x - ps[j].x, ps[i].y - ps[j].y)
        Near(j) == Gap(j) < ConnectionDistance * FP
        hits == SelectSeq(others, Near)
    IN  [k \in 1..Len(hits) |-> [particle |-> ps[hits[k]].id, distance |-> Gap(hits[k])]]

\* updateConnections without the pass that empties the lists first
ConnectionsOf_KeepStale(ps, i) ==
    LET later == [k \in 1..(Len(ps) - i) |-> i + k]
        Gap(j) == Dist(ps[i].x - ps[j].x, ps[i].y - ps[j].y)
        Near(j) == Gap(j) < ConnectionDistance * FP
        hits == SelectSeq(later, Near)
    IN  ps[i].connections \o
        [k \in 1..Len(hits) |-> [particle |-> ps[hits[k]].id, distance |-> Gap(hits[k])]]

\* ParticleSystem.updateConnections: the entries pushed for particles[i]
ConnectionsOf(ps, i) ==
    LET later == [k \in 1..(Len(ps) - i) |-> i + k]
        Gap(j) == Dist(ps[i].x - ps[j].x, ps[i].y - ps[j].y)
        Near(j) == Gap(j) < ConnectionDistance * FP
        hits == SelectSeq(later, Near)
    IN  [k \in 1..Len(hits) |-> [particle |-> ps[hits[k]].id, distance |-> Gap(hits[k])]]

UpdateConnections(ps) ==
    [i \in DOMAIN ps |-> [ps[i] EXCEPT !.connections = ConnectionsOf(ps, i)]]

\* an explosion particle whose life is set to the lifetime in milliseconds
\* while its alpha stays at 1
ExplosionParticle_LifeInMs(id, x, y, i, rs) ==
    LET speed == Trunc(ExplosionSpeed * VelOne * (RandDen + rs), 2 * RandDen)
        base  == NewParticle(id, x, y, 0, 0, 0)
    IN  [base EXCEPT !.vx = Trunc(Cos(i, ExplosionCount) * speed, FP),
                     !.vy = Trunc(Sin(i, ExplosionCount) * speed, FP),
                     !.life = ExplosionLifetime * LifeOne,
                     !.decay = LifeOne \div ExplosionLifetime]

\* the i-th particle (i from 0) built by the loop of createExplosion;
\* rs is the draw for its speed
ExplosionParticle(id, x, y, i, rs) ==
    LET speed == Trunc(ExplosionSpeed * VelOne * (RandDen + rs), 2 * RandDen)
        base  == NewParticle(id, x, y, 0, 0, 0)
    IN  [base EXCEPT !.vx = Trunc(Cos(i, ExplosionCount) * speed, FP),
                     !.vy = Trunc(Sin(i, ExplosionCount) * speed, FP),
                     !.life = LifeOne,
                     !.decay = LifeOne \div ExplosionLifetime]

\* particles.slice(-n)
SliceLast(s, n) == IF Len(s) > n THEN SubSeq(s, Len(s) - n + 1, Len(s)) ELSE s

\* createExplosion that keeps the front of the list: slice(0, cap)
CreateExplosion_KeepOldest(ps, x, y, r, firstId) ==
    LET explosionParticles ==
            [k \in 1..ExplosionCount |->
                ExplosionParticle(firstId + k - 1, x, y, k - 1, (r + k - 1) % RandDen)]
        all == ps \o explosionParticles
    IN  IF Len(all) > ParticleCount * 2
        THEN SubSeq(all, 1, ParticleCount * 2)
        ELSE all

\* createExplosion without the population limit
CreateExplosion_NoCap(ps, x, y, r, firstId) ==
    ps \o [k \in 1..ExplosionCount |->
              ExplosionParticle(firstId + k - 1, x, y, k - 1, (r + k - 1) % RandDen)]

\* ParticleSystem.createExplosion; r seeds the speed draws, firstId names
\* the new particles in creation order
CreateExplosion(ps, x, y, r, firstId) ==
    LET explosionParticles ==
            [k \in 1..ExplosionCount |->
                ExplosionParticle(firstId + k - 1, x, y, k - 1, (r + k - 1) % RandDen)]
        all == ps \o explosionParticles
    IN  IF Len(all) > ParticleCount * 2
        THEN SliceLast(all, ParticleCount * 2)
        ELSE all

\* ParticleSystem.initParticles: c[i] holds the draws of the i-th particle
InitParticles(c, w, h) ==
    [i \in 1..ParticleCount |->
        NewParticle(i, (c[i].x * w * FP) \div RandDen, (c[i].y * h * FP) \div RandDen,
                    c[i].vx, c[i].vy, c[i].d)]

\* -------------------------------------------------------------------- state
VARIABLES
    particles,          \* this.particles
    nextId,             \* identity handed to the next particle created
    mouseX, mouseY,     \* this.mouseX, this.mouseY
    lastMouseX, lastMouseY,
    isMouseOver,        \* this.isMouseOver
    innerWidth, innerHeight,    \* window.innerWidth, window.innerHeight
    canvasWidth, canvasHeight,  \* canvas.width, canvas.height
    pending,            \* frame callbacks registered by requestAnimationFrame
    constructed,        \* a ParticleSystem exists and its listeners are attached
    has2d, hasRAF, hasPS,   \* what the browser provides
    hostState,          \* progress of the host's init()
    cursorFollower, mainButtonInteraction, transitionSetup,  \* host set-up done
    particleSystem,     \* the host's reference: TRUE when not null
    isTransitioning, tlActive, timerPending,    \* the host's transition
    lastOp,             \* the operation that produced this state
    lastCall,           \* the last of start() / stop() called on the system
    trace,              \* stages completed by the latest animate()
    removed,            \* ids filtered out by the latest animate()
    thrown,             \* the latest animate() ended by an exception
    frames, clicks, moves,      \* events so far
    animationFrameId,   \* animations.js: handle of the pending callback, 0 for null
    animPending,        \* animations.js: handles registered, not yet run or cancelled
    animHandle,         \* the last handle requestAnimationFrame returned to animations.js
    animLoops,          \* calls of startAnimationLoop so far
    animPhase,          \* "new": no call of the animations interface yet;
                        \* "started": the first call was initAnimations, made once;
                        \* "other": any other history
    animLast,           \* the last of init / pause / resume called
    animOp              \* the last animations operation, frame callbacks included

sysVars == <<particles, nextId, mouseX, mouseY, lastMouseX, lastMouseY,
             isMouseOver, canvasWidth, canvasHeight, pending, constructed>>
envVars == <<has2d, hasRAF, hasPS, innerWidth, innerHeight>>
hostVars == <<hostState, cursorFollower, mainButtonInteraction, transitionSetup,
              particleSystem, isTransitioning, tlActive, timerPending>>
logVars == <<lastOp, lastCall, trace, removed, thrown, frames, clicks, moves>>
animVars == <<animationFrameId, animPending, animHandle, animLoops,
              animPhase, animLast, animOp>>
vars == <<sysVars, envVars, hostVars, logVars, animVars>>

\* the random draws explored for the baseline particles: the i-th particle
\* of a field seeded with s takes the draws DrawsOf(s + i)
DrawsOf(k) ==
    IF k % 2 = 0
    THEN [x |-> 0, y |-> 0, vx |-> 0, vy |-> 0, d |-> RandDen - 1]
    ELSE [x |-> RandDen \div 2, y |-> RandDen - 1, vx |-> RandDen - 1,
          vy |-> RandDen \div 2, d |-> 0]
Seeds == {0, 1}
Draws(s) == [i \in 1..ParticleCount |-> DrawsOf(s + i)]

\* the speed draws explored for an explosion: its k-th particle takes the
\* draw (r + k) % RandDen
ExplosionSeeds == {RandDen - 1}

\* the viewports explored
Viewports == { <<MaxSize, MaxSize>>, <<MaxSize \div 2, MaxSize \div 2>> }

\* pointer coordinates explored, in the current viewport
Points == { <<0, 0>>, <<(innerWidth * FP) \div 2, (innerHeight * FP) \div 2>> }

\* where the clicks outside the main button land
ClickPoints == { <<0, 0>> }

\* centre of mainButton.getBoundingClientRect()
ButtonCentre == <<(innerWidth * FP) \div 2, (innerHeight * FP) \div 2>>

\* where the clicks on the main button land (clientX, clientY of the event)
ButtonPoints == { ButtonCentre }

\* ------------------------------------------------------------------ animate
\* animate() drawing the particles before the connection lines
AnimateOrder_ParticlesFirst ==
    << "clear", "forces", "step", "connections",
       "drawParticles", "drawConnections", "schedule" >>

\* animate() without the closing requestAnimationFrame
AnimateOrder_NoSchedule ==
    << "clear", "forces", "step", "connections",
       "drawConnections", "drawParticles" >>

\* the statements of animate() in program order
AnimateOrder ==
    << "clear", "forces", "step", "connections",
       "drawConnections", "drawParticles", "schedule" >>

\* stages that call a method of this.ctx
CtxStages == { "clear", "drawConnections", "drawParticles" }

\* a stage raises when the context is null (getContext('2d') failed) or
\* when the context method it calls throws (fault names that stage)
Throws(stage, fault) == stage \in CtxStages /\ (~has2d \/ fault = stage)

\* the filter of animate(): update every particle, keep those not dead
StepField(ps) ==
    LET updated == [i \in DOMAIN ps |-> Update(ps[i], innerWidth, innerHeight)]
        Alive(p) == ~IsDead(p)
    IN  SelectSeq(updated, Alive)

Ids(ps) == { ps[i].id : i \in DOMAIN ps }

\* effect of one statement of animate() on the running state st
StageEffect(stage, st) ==
    LET done == [st EXCEPT !.trace = Append(@, stage)]
    IN  CASE stage = "forces" ->
               [done EXCEPT !.particles =
                    ApplyMouseForces(st.particles, isMouseOver, mouseX, mouseY)]
          [] stage = "step" ->
               [done EXCEPT !.particles = StepField(st.particles),
                            !.removed = Ids(st.particles) \ Ids(StepField(st.particles))]
          [] stage = "connections" ->
               [done EXCEPT !.particles = UpdateConnections(st.particles)]
          [] stage = "schedule" ->
               [done EXCEPT !.pending = @ + 1]
          [] OTHER -> done

\* the statements run one after the other, each on the state its predecessor
\* left (bound as a value before the next statement runs); an exception ends
\* the call
RECURSIVE RunStages(_, _, _)
RunStages(stages, st, fault) ==
    IF stages = << >> THEN st
    ELSE IF Throws(Head(stages), fault) THEN [st EXCEPT !.thrown = TRUE]
    ELSE CHOOSE r \in { RunStages(Tail(stages), next, fault) :
                            next \in { StageEffect(Head(stages), st) } } : TRUE

\* animate() wrapped in a try / catch that registers the next callback also
\* after an exception, with no limit on consecutive failures
Animate_Reschedules(ps, p0, fault) ==
    LET r == RunStages(AnimateOrder,
                       [particles |-> ps, pending |-> p0, trace |-> << >>,
                        removed |-> {}, thrown |-> FALSE],
                       fault)
    IN  IF r.thrown THEN [r EXCEPT !.pending = @ + 1] ELSE r

\* ParticleSystem.animate on the field ps with p0 callbacks still pending
Animate(ps, p0, fault) ==
    RunStages(AnimateOrder,
              [particles |-> ps, pending |-> p0, trace |-> << >>,
               removed |-> {}, thrown |-> FALSE],
              fault)

\* context faults explored besides the null context
Faults == { "none", "drawConnections" }

\* -------------------------------------------------------------------- Init
\* the page is loaded, the scripts are evaluated, init() has not run yet
Init ==
    /\ particles = << >>
    /\ nextId = 1
    /\ mouseX = 0 /\ mouseY = 0 /\ lastMouseX = 0 /\ lastMouseY = 0
    /\ isMouseOver = FALSE
    /\ innerWidth = MaxSize /\ innerHeight = MaxSize
    /\ canvasWidth = 0 /\ canvasHeight = 0
    /\ pending = 0
    /\ constructed = FALSE
    /\ has2d \in BOOLEAN /\ hasRAF \in BOOLEAN /\ hasPS \in BOOLEAN
    /\ hostState = "loading"
    /\ cursorFollower = FALSE /\ mainButtonInteraction = FALSE
    /\ transitionSetup = FALSE
    /\ particleSystem = FALSE
    /\ isTransitioning = FALSE /\ tlActive = FALSE /\ timerPending = FALSE
    /\ lastOp = "load" /\ lastCall = "none"
    /\ trace = << >> /\ removed = {} /\ thrown = FALSE
    /\ frames = 0 /\ clicks = 0 /\ moves = 0
    /\ animationFrameId = 0 /\ animPending = {} /\ animHandle = 0
    /\ animLoops = 0
    /\ animPhase = "new" /\ animLast = "none" /\ animOp = "none"

\* the assignments made from the result r of an animate() call
TakeAnimate(r) ==
    /\ particles' = r.particles
    /\ pending' = r.pending
    /\ trace' = r.trace
    /\ removed' = r.removed
    /\ thrown' = r.thrown

\* init() of the host: checkBrowserSupport, the set-up functions, then
\* setupParticles -> ParticleSystem.init -> constructor and start().
\* The page elements and gsap are present and the user has not asked for
\* reduced motion, so setupCursorFollower and setupMainButtonInteraction
\* attach their listeners.
HostInit ==
    /\ hostState = "loading"
    /\ lastOp' = "init"
    /\ IF ~(hasRAF /\ hasPS)
       THEN /\ hostState' = "aborted"
            /\ UNCHANGED <<sysVars, cursorFollower, mainButtonInteraction,
                           transitionSetup, particleSystem, lastCall, trace,
                           removed, thrown, frames>>
       ELSE \E s \in Seeds :
              LET r == Animate(InitParticles(Draws(s), innerWidth, innerHeight), 0, "none")
              IN  /\ hostState' = "done"
                  /\ cursorFollower' = TRUE
                  /\ mainButtonInteraction' = TRUE
                  /\ transitionSetup' = TRUE
                  /\ constructed' = TRUE
                  /\ nextId' = ParticleCount + 1
                  /\ canvasWidth' = innerWidth /\ canvasHeight' = innerHeight
                  /\ TakeAnimate(r)
                  /\ particleSystem' = ~r.thrown
                  /\ lastCall' = "start"
                  /\ frames' = frames + 1
                  /\ UNCHANGED <<mouseX, mouseY, lastMouseX, lastMouseY, isMouseOver>>
    /\ UNCHANGED <<envVars, isTransitioning, tlActive, timerPending, clicks, moves>>
    /\ UNCHANGED animVars

\* the callback registered by requestAnimationFrame(() => this.animate())
FrameBody(fault) ==
    /\ pending > 0
    /\ \E r \in { Animate(particles, pending - 1, fault) } : TakeAnimate(r)
    /\ lastOp' = "frame"
    /\ UNCHANGED <<nextId, mouseX, mouseY, lastMouseX, lastMouseY, isMouseOver,
                   canvasWidth, canvasHeight, constructed, envVars, hostVars,
                   lastCall, clicks, moves>>
    /\ UNCHANGED animVars

Frame ==
    /\ frames < MaxFrames
    /\ \E fault \in Faults : FrameBody(fault)
    /\ frames' = frames + 1

\* the same callback in runs that follow the field over its whole life
FrameLong ==
    /\ FrameBody("none")
    /\ UNCHANGED frames

\* the same callback with its runs counted up to MaxTicks
FrameCounted ==
    /\ FrameBody("none")
    /\ frames' = Min(frames + 1, MaxTicks)

\* the same callback with its runs counted cyclically (1 .. MaxFrames), so
\* that each run is a visible step even when the field no longer changes
FrameTick ==
    /\ FrameBody("none")
    /\ frames' = (frames % MaxFrames) + 1

\* ParticleSystem.start
Start ==
    /\ constructed
    /\ frames < MaxFrames
    /\ pending < MaxPending
    /\ canvasWidth' = innerWidth /\ canvasHeight' = innerHeight
    /\ TakeAnimate(Animate(particles, pending, "none"))
    /\ lastOp' = "start" /\ lastCall' = "start"
    /\ frames' = frames + 1
    /\ UNCHANGED <<nextId, mouseX, mouseY, lastMouseX, lastMouseY, isMouseOver,
                   constructed, envVars, hostVars, clicks, moves>>
    /\ UNCHANGED animVars

\* ParticleSystem.stop
Stop ==
    /\ constructed
    /\ lastOp' = "stop" /\ lastCall' = "stop"
    /\ UNCHANGED <<sysVars, envVars, hostVars, trace, removed, thrown,
                   frames, clicks, moves>>
    /\ UNCHANGED animVars

\* ------------------------------------------------------------ input events
\* onMouseMove of the host's setupCursorFollower, as far as it touches the
\* field: particleSystem.applyMouseForces(clientX, clientY); the arguments
\* are ignored by applyMouseForces, which reads this.mouseX / this.mouseY
OnMouseMove(ps, over, mx, my) ==
    IF cursorFollower /\ ~isTransitioning /\ particleSystem
    THEN ApplyMouseForces(ps, over, mx, my)
    ELSE ps

\* a mousemove event at pt: the document listener of the particle system
\* runs first (bubbling reaches document before window), then the host's
\* window listener onMouseMove
MouseMove(pt) ==
    /\ constructed \/ cursorFollower
    /\ moves < MaxMoves
    /\ IF constructed
       THEN /\ lastMouseX' = mouseX /\ lastMouseY' = mouseY
            /\ mouseX' = pt[1] /\ mouseY' = pt[2]
            /\ isMouseOver' = TRUE
       ELSE UNCHANGED <<lastMouseX, lastMouseY, mouseX, mouseY, isMouseOver>>
    /\ particles' = OnMouseMove(particles, isMouseOver', mouseX', mouseY')
    /\ lastOp' = "mousemove"
    /\ moves' = moves + 1
    /\ UNCHANGED <<nextId, canvasWidth, canvasHeight, pending, constructed,
                   envVars, hostVars, lastCall, trace, removed, thrown,
                   frames, clicks>>
    /\ UNCHANGED animVars

\* the mouseleave listener without its assignment to isMouseOver
MouseLeave_KeepsFlag ==
    /\ constructed
    /\ lastOp' = "mouseleave"
    /\ UNCHANGED <<particles, nextId, mouseX, mouseY, lastMouseX, lastMouseY,
                   isMouseOver, canvasWidth, canvasHeight, pending, constructed,
                   envVars, hostVars, lastCall, trace, removed, thrown,
                   frames, clicks, moves>>
    /\ UNCHANGED animVars

\* the document listeners for mouseleave and mouseenter
MouseLeave ==
    /\ constructed
    /\ isMouseOver' = FALSE
    /\ lastOp' = "mouseleave"
    /\ UNCHANGED <<particles, nextId, mouseX, mouseY, lastMouseX, lastMouseY,
                   canvasWidth, canvasHeight, pending, constructed,
                   envVars, hostVars, lastCall, trace, removed, thrown,
                   frames, clicks, moves>>
    /\ UNCHANGED animVars

MouseEnter ==
    /\ constructed
    /\ isMouseOver' = TRUE
    /\ lastOp' = "mouseenter"
    /\ UNCHANGED <<particles, nextId, mouseX, mouseY, lastMouseX, lastMouseY,
                   canvasWidth, canvasHeight, pending, constructed,
                   envVars, hostVars, lastCall, trace, removed, thrown,
                   frames, clicks, moves>>
    /\ UNCHANGED animVars

\* a click outside the main button: the document listener of the system
Click(pt, r) ==
    /\ constructed
    /\ clicks < MaxClicks
    /\ particles' = CreateExplosion(particles, pt[1], pt[2], r, nextId)
    /\ nextId' = nextId + ExplosionCount
    /\ lastOp' = "click"
    /\ clicks' = clicks + 1
    /\ UNCHANGED <<mouseX, mouseY, lastMouseX, lastMouseY, isMouseOver,
                   canvasWidth, canvasHeight, pending, constructed,
                   envVars, hostVars, lastCall, trace, removed, thrown,
                   frames, moves>>
    /\ UNCHANGED animVars

\* a click that arrives before the first frame callback has run
BurstClick(pt, r) ==
    /\ lastOp = "init"
    /\ Click(pt, r)

\* a click on the main button: the button's listener set by setupTransition
\* runs first, then the event bubbles to the document listener of the
\* system, which explodes at the point pt of the click
ButtonClick(pt, r) ==
    /\ transitionSetup
    /\ clicks < MaxClicks
    /\ LET accepted == ~(tlActive \/ isTransitioning)
           byHost == accepted /\ particleSystem
           afterHost == IF byHost
                        THEN CreateExplosion(particles, ButtonCentre[1],
                                             ButtonCentre[2], r, nextId)
                        ELSE particles
           idAfterHost == IF byHost THEN nextId + ExplosionCount ELSE nextId
       IN  /\ IF accepted
              THEN tlActive' = TRUE /\ isTransitioning' = TRUE
              ELSE UNCHANGED <<tlActive, isTransitioning>>
           /\ IF constructed
              THEN /\ particles' = CreateExplosion(afterHost, pt[1], pt[2],
                                                   r, idAfterHost)
                   /\ nextId' = idAfterHost + ExplosionCount
              ELSE /\ particles' = afterHost
                   /\ nextId' = idAfterHost
    /\ lastOp' = "buttonclick"
    /\ clicks' = clicks + 1
    /\ UNCHANGED <<mouseX, mouseY, lastMouseX, lastMouseY, isMouseOver,
                   canvasWidth, canvasHeight, pending, constructed, envVars,
                   hostState, cursorFollower, mainButtonInteraction,
                   transitionSetup, particleSystem, timerPending,
                   lastCall, trace, removed, thrown, frames, moves>>
    /\ UNCHANGED animVars

\* onComplete of the transition timeline: opens the link, arms the timer
TransitionComplete ==
    /\ tlActive
    /\ tlActive' = FALSE
    /\ timerPending' = TRUE
    /\ lastOp' = "transition"
    /\ UNCHANGED <<sysVars, envVars, hostState, cursorFollower,
                   mainButtonInteraction, transitionSetup, particleSystem,
                   isTransitioning, lastCall, trace, removed, thrown,
                   frames, clicks, moves>>
    /\ UNCHANGED animVars

\* the setTimeout(..., 500) callback of onComplete
TimeoutFire ==
    /\ timerPending
    /\ timerPending' = FALSE
    /\ isTransitioning' = FALSE
    /\ lastOp' = "timeout"
    /\ UNCHANGED <<sysVars, envVars, hostState, cursorFollower,
                   mainButtonInteraction, transitionSetup, particleSystem,
                   tlActive, lastCall, trace, removed, thrown,
                   frames, clicks, moves>>
    /\ UNCHANGED animVars

\* the window is resized to w x h; the resize listener runs handleResize
Resize(w, h) ==
    /\ <<w, h>> # <<innerWidth, innerHeight>>
    /\ innerWidth' = w /\ innerHeight' = h
    /\ IF constructed
       THEN canvasWidth' = w /\ canvasHeight' = h
       ELSE UNCHANGED <<canvasWidth, canvasHeight>>
    /\ lastOp' = "resize"
    /\ UNCHANGED <<particles, nextId, mouseX, mouseY, lastMouseX, lastMouseY,
                   isMouseOver, pending, constructed, has2d, hasRAF, hasPS,
                   hostVars, lastCall, trace, removed, thrown,
                   frames, clicks, moves>>
    /\ UNCHANGED animVars

\* -------------------------------------------------------------------- specs
Next ==
    \/ HostInit
    \/ Frame
    \/ Start
    \/ Stop
    \/ \E pt \in Points : MouseMove(pt)
    \/ MouseLeave
    \/ MouseEnter
    \/ \E pt \in ClickPoints, r \in ExplosionSeeds : Click(pt, r)
    \/ \E pt \in ButtonPoints, r \in ExplosionSeeds : ButtonClick(pt, r)
    \/ TransitionComplete
    \/ TimeoutFire
    \/ \E v \in Viewports : Resize(v[1], v[2])

Spec == Init /\ [][Next]_vars

\* the field followed frame by frame until every particle has decayed
NextLife ==
    \/ HostInit
    \/ FrameLong

SpecLife == Init /\ [][NextLife]_vars

\* a burst created right after start() and followed until it has decayed
NextBurst ==
    \/ HostInit
    \/ \E pt \in ClickPoints, r \in ExplosionSeeds : BurstClick(pt, r)
    \/ FrameCounted

SpecBurst == Init /\ [][NextBurst]_vars

\* the loop alone; the browser runs every callback that
\* requestAnimationFrame registered, hence weak fairness of the callback
NextLoop ==
    \/ HostInit
    \/ FrameTick

SpecLoop == Init /\ [][NextLoop]_vars /\ WF_vars(FrameTick)

\* the viewports of the runs that shrink the window: those of Viewports and
\* one a pixel short of the half size, so that a particle created at the
\* centre of the full window is left just outside
ShrinkViewports == Viewports \cup { <<MaxSize \div 2 - 1, MaxSize \div 2 - 1>> }

\* bursts at the main button, resizes and the ticks that follow them
NextShrink ==
    \/ HostInit
    \/ \E pt \in ButtonPoints, r \in ExplosionSeeds : ButtonClick(pt, r)
    \/ \E v \in ShrinkViewports : Resize(v[1], v[2])
    \/ Frame

SpecShrink == Init /\ [][NextShrink]_vars

\* ----------------------------------------------- animations.js: the loop
\* startAnimationLoop: animate() runs once at once (animateParticles and
\* updateTimers touch only the page) and registers itself for the next frame
StartAnimationLoop ==
    /\ animHandle < MaxHandles
    /\ animHandle' = animHandle + 1
    /\ animPending' = animPending \cup { animHandle + 1 }
    /\ animationFrameId' = animHandle + 1
    /\ animLoops' = animLoops + 1

\* the history of the calls made on the animations interface
PhaseAfter(op) ==
    IF animPhase = "new"
    THEN IF op = "init" THEN "started" ELSE "other"
    ELSE IF op = "init" THEN "other" ELSE animPhase

\* initAnimations, as far as the loop goes: startAnimationLoop()
InitAnimations ==
    /\ StartAnimationLoop
    /\ animPhase' = PhaseAfter("init")
    /\ animLast' = "init" /\ animOp' = "init"
    /\ UNCHANGED <<sysVars, envVars, hostVars, logVars>>

\* the callback animate registered with requestAnimationFrame
AnimFrame ==
    /\ animHandle < MaxHandles
    /\ \E h \in animPending :
           animPending' = (animPending \ {h}) \cup { animHandle + 1 }
    /\ animHandle' = animHandle + 1
    /\ animationFrameId' = animHandle + 1
    /\ animOp' = "frame"
    /\ UNCHANGED <<animLoops, animPhase, animLast>>
    /\ UNCHANGED <<sysVars, envVars, hostVars, logVars>>

\* pauseAnimations
PauseAnimations ==
    /\ IF animationFrameId # 0
       THEN /\ animPending' = animPending \ { animationFrameId }
            /\ animationFrameId' = 0
       ELSE UNCHANGED <<animPending, animationFrameId>>
    /\ animPhase' = PhaseAfter("pause")
    /\ animLast' = "pause" /\ animOp' = "pause"
    /\ UNCHANGED <<animHandle, animLoops>>
    /\ UNCHANGED <<sysVars, envVars, hostVars, logVars>>

\* resumeAnimations without its test of animationFrameId
ResumeAnimations_Always ==
    /\ StartAnimationLoop
    /\ animPhase' = PhaseAfter("resume")
    /\ animLast' = "resume" /\ animOp' = "resume"
    /\ UNCHANGED <<sysVars, envVars, hostVars, logVars>>

\* resumeAnimations
ResumeAnimations ==
    /\ IF animationFrameId = 0
       THEN StartAnimationLoop
       ELSE UNCHANGED <<animationFrameId, animPending, animHandle, animLoops>>
    /\ animPhase' = PhaseAfter("resume")
    /\ animLast' = "resume" /\ animOp' = "resume"
    /\ UNCHANGED <<sysVars, envVars, hostVars, logVars>>

\* the background loop of animations.js under calls of its interface
NextAnim ==
    \/ InitAnimations
    \/ AnimFrame
    \/ PauseAnimations
    \/ ResumeAnimations

SpecAnim == Init /\ [][NextAnim]_vars

\* =================================================================== claims
IdSeq(ps) == [i \in DOMAIN ps |-> ps[i].id]
Range(f) == { f[i] : i \in DOMAIN f }

\* operations that run animate() on an existing field
TickOps == { "start", "frame" }
\* the state was produced by an operation that ran animate()
Ticked == lastOp \in TickOps \/ (lastOp = "init" /\ hostState = "done")
\* the state was produced by an animate() whose filter pass ran
AfterStep == Ticked /\ "step" \in Range(trace)

\* physics of a particle: what only a tick may change
Physics(p) == <<p.x, p.y, p.vx, p.vy, p.life>>

InBounds(p) ==
    /\ 0 <= p.x /\ p.x <= innerWidth * FP
    /\ 0 <= p.y /\ p.y <= innerHeight * FP

\* C1: a click's createExplosion on a field of `current` particles leaves
\* min(current + n, cap) particles, cap = 2 * baseline count; the particles
\* dropped are the first current + n - cap of the insertion-ordered list
\* (old particles followed by the n new ones), the rest keep their order and
\* the surviving old particles are untouched.
C1_ExplosionCapsOldestFirst ==
    [][lastOp' = "click" =>
        LET current == Len(particles)
            cap == 2 * ParticleCount
            all == IdSeq(particles) \o [k \in 1..ExplosionCount |-> nextId + k - 1]
            drop == Max(0, current + ExplosionCount - cap)
        IN  /\ Len(particles') = Min(current + ExplosionCount, cap)
            /\ IdSeq(particles') = SubSeq(all, drop + 1, Len(all))
            /\ \A i \in DOMAIN particles', j \in DOMAIN particles :
                   particles'[i].id = particles[j].id => particles'[i] = particles[j]
    ]_vars

\* a click has just pushed the field over the cap: the oldest particle is gone
C1_Witness ==
    /\ lastOp = "click"
    /\ Len(particles) = 2 * ParticleCount
    /\ particles[1].id > 1
    /\ particles[Len(particles)].id = nextId - 1

\* C2: the field never holds more than twice the baseline particle count.
C2_PopulationCapped == Len(particles) <= 2 * ParticleCount

\* the field is full after explosions created more particles than fit
C2_Witness ==
    /\ Len(particles) = 2 * ParticleCount
    /\ nextId - 1 > 2 * ParticleCount
    /\ lastOp = "buttonclick"

\* C3: right after a tick whose filter pass ran, every particle of the field
\* lies in [0, width] x [0, height] of the current viewport.
C3_InBoundsAfterStep == AfterStep => \A i \in DOMAIN particles : InBounds(particles[i])

\* a tick after the viewport shrank has put a particle on the new far edge
C3_Witness ==
    /\ lastOp = "frame" /\ "step" \in Range(trace)
    /\ innerWidth < MaxSize
    /\ \E i \in DOMAIN particles :
           particles[i].x = innerWidth * FP /\ particles[i].y = innerHeight * FP

\* C4 as stated: a tick that completes runs forces, step, connections, clear,
\* draw connections, draw particles, schedule, in this order.
C4_ClearAfterConnections ==
    (Ticked /\ ~thrown) =>
        trace = << "forces", "step", "connections", "clear",
                   "drawConnections", "drawParticles", "schedule" >>

\* C4 amended: a tick that completes clears the surface first, then runs
\* forces, step, connections, draw connections, draw particles, and schedules
\* the next tick last; a tick ended by an exception ran a proper prefix of
\* this order and scheduled nothing.
C4_ClearFirstScheduleLast ==
    LET order == << "clear", "forces", "step", "connections",
                    "drawConnections", "drawParticles", "schedule" >>
    IN  Ticked =>
           /\ Len(trace) <= Len(order)
           /\ trace = SubSeq(order, 1, Len(trace))
           /\ thrown <=> Len(trace) < Len(order)

\* a frame callback has run to completion
C4_Witness == lastOp = "frame" /\ ~thrown /\ Len(trace) = 7

\* C5 as stated: once stop() is the last call made on the system no frame
\* callback is registered and no tick runs until start() is called again.
C5_StopHaltsLoop ==
    /\ [](lastCall = "stop" => pending = 0)
    /\ [][(lastCall = "stop" /\ lastCall' = "stop") => frames' = frames]_vars

\* C6 as stated: pointer, click and resize handlers leave the position,
\* velocity and remaining life of every particle that stays in the field
\* unchanged.
InputOps == { "mousemove", "mouseleave", "mouseenter", "click", "buttonclick", "resize" }
C6_InputsLeavePhysics ==
    [][lastOp' \in InputOps =>
        \A i \in DOMAIN particles, j \in DOMAIN particles' :
            particles[i].id = particles'[j].id =>
                Physics(particles[i]) = Physics(particles'[j])
    ]_vars

\* C7 as stated: a tick in which an exception is raised still schedules the
\* next frame.
C7_FailingTickReschedules ==
    (Ticked /\ thrown) => "schedule" \in Range(trace)

\* C8 as stated: once init() has run with a capability missing, no tick is
\* scheduled and the host's cursor follower, main-button interaction and
\* transition are set up all the same.
C8_HostSurvivesMissingCapability ==
    (hostState # "loading" /\ ~(has2d /\ hasRAF /\ hasPS)) =>
        /\ pending = 0
        /\ cursorFollower /\ mainButtonInteraction /\ transitionSetup

\* C9: the filter pass of a tick keeps exactly the particles whose remaining
\* life is still positive after their update, in order; none with remaining
\* life <= 0 stays in the field.
C9_DeadRemovedInSamePass ==
    /\ [][(lastOp' \in TickOps /\ "step" \in Range(trace')) =>
          LET Survives(p) == p.life - p.decay > 0
          IN  /\ IdSeq(particles') = IdSeq(SelectSeq(particles, Survives))
              /\ removed' = Ids(particles) \ Ids(particles')
       ]_vars
    /\ [](AfterStep => \A i \in DOMAIN particles : particles[i].life > 0)

\* a frame has just removed a particle whose life ran out and kept another
C9_Witness ==
    /\ lastOp = "frame"
    /\ removed # {}
    /\ particles # << >>

\* C10 as stated: a step taken from a field in which no particle has
\* remaining life <= 0 removes no particle.
C10_SecondStepRemovesNothing ==
    [][(AfterStep /\ lastOp' = "frame" /\ "step" \in Range(trace')
        /\ \A i \in DOMAIN particles : particles[i].life > 0)
       => Len(particles') = Len(particles)]_vars

\* C10 amended: a step taken from a field in which every particle has
\* remaining life greater than its decay rate removes no particle, and a
\* particle whose remaining life is at most its decay rate is removed by it.
C10_StepRemovesOnlyExpiring ==
    [][(AfterStep /\ lastOp' = "frame" /\ "step" \in Range(trace')) =>
        /\ (\A i \in DOMAIN particles : particles[i].life > particles[i].decay)
              => Len(particles') = Len(particles) /\ removed' = {}
        /\ \A i \in DOMAIN particles :
              particles[i].life <= particles[i].decay
                  => particles[i].id \notin Ids(particles')
    ]_vars

\* a second step has run on a field of live particles and removed nothing
C10_Witness ==
    /\ lastOp = "frame" /\ "step" \in Range(trace)
    /\ removed = {}
    /\ Len(particles) = ParticleCount
    /\ \A i \in DOMAIN particles :
           /\ particles[i].life > 0
           /\ particles[i].life <= LifeOne - 2 * particles[i].decay

\* the step from this state to the next ran an animate() whose filter pass ran
StepRan == lastOp' \in TickOps /\ "step" \in Range(trace')

\* C11: for every particle that stays in the field, a step lowers its
\* remaining life by exactly its decay rate; no other operation (pointer move,
\* pointer enter / leave, click, button click, resize, stop, the transition)
\* changes its remaining life, so remaining life never increases; and its
\* decay rate never changes.
C11_LifeDecaysByOwnRate ==
    [][\A i \in DOMAIN particles, j \in DOMAIN particles' :
          particles[i].id = particles'[j].id =>
              /\ particles'[j].decay = particles[i].decay
              /\ particles'[j].life <= particles[i].life
              /\ particles'[j].life =
                     IF StepRan THEN particles[i].life - particles[i].decay
                                ELSE particles[i].life
    ]_vars

\* a frame has stepped a baseline particle for the second time and a burst
\* particle, created by a click in between, for the first time
C11_Witness ==
    /\ lastOp = "frame" /\ "step" \in Range(trace)
    /\ \E i \in DOMAIN particles :
           /\ particles[i].id <= ParticleCount
           /\ particles[i].decay > 1
           /\ particles[i].life = LifeOne - 2 * particles[i].decay
    /\ \E i \in DOMAIN particles :
           /\ particles[i].id > ParticleCount
           /\ particles[i].life = LifeOne - particles[i].decay

\* the state was produced by an animate() whose updateConnections ran
AfterConnections == Ticked /\ "connections" \in Range(trace)

\* the entries of particles[i].connections that name particles[j]
EntriesFor(i, j) ==
    { k \in DOMAIN particles[i].connections :
          particles[i].connections[k].particle = particles[j].id }

\* the distance between particles[i] and particles[j], measured from j
Apart(i, j) == Dist(particles[j].x - particles[i].x, particles[j].y - particles[i].y)

\* C12 as stated: after updateConnections, whenever the list of a particle A
\* holds B with distance d, the list of B holds A with the same distance d.
C12_ListsSymmetric ==
    AfterConnections =>
        \A i \in DOMAIN particles, j \in DOMAIN particles :
            \A k \in EntriesFor(i, j) :
                \E m \in EntriesFor(j, i) :
                    particles[j].connections[m].distance =
                        particles[i].connections[k].distance

\* C12 amended: after updateConnections a connection is recorded in one
\* direction only: whenever the list of A holds an entry, the entry names a
\* particle B that follows A in the particle list, the list of B holds no
\* entry for A, and the recorded distance is the distance between the two,
\* the same whichever of the two it is measured from.
C12_RecordedOncePerPair ==
    AfterConnections =>
        \A i \in DOMAIN particles :
            \A k \in DOMAIN particles[i].connections :
                \E j \in DOMAIN particles :
                    /\ j > i
                    /\ k \in EntriesFor(i, j)
                    /\ EntriesFor(j, i) = {}
                    /\ particles[i].connections[k].distance = Apart(i, j)
                    /\ Apart(i, j) = Apart(j, i)

\* a tick has recorded a connection between two particles that lie apart
C12_Witness ==
    /\ AfterConnections
    /\ \E i \in DOMAIN particles :
           \E k \in DOMAIN particles[i].connections :
               particles[i].connections[k].distance > 0

\* C13: after updateConnections every unordered pair of distinct particles of
\* the field has exactly one entry in total (counting both lists) when the two
\* are closer than connectionDistance and none otherwise; no list names its
\* own particle; every entry names a particle of the field, so nothing is
\* left of the lists of the previous frame.
C13_OneEntryPerClosePair ==
    AfterConnections =>
        /\ \A i \in DOMAIN particles, j \in DOMAIN particles :
               i < j =>
                   Cardinality(EntriesFor(i, j)) + Cardinality(EntriesFor(j, i)) =
                       IF Apart(i, j) < ConnectionDistance * FP THEN 1 ELSE 0
        /\ \A i \in DOMAIN particles :
               /\ EntriesFor(i, i) = {}
               /\ \A k \in DOMAIN particles[i].connections :
                      particles[i].connections[k].particle \in Ids(particles)

\* a later frame, run after an explosion, has connected one pair of particles
\* and left another pair, too far apart, unconnected
C13_Witness ==
    /\ lastOp = "frame" /\ "connections" \in Range(trace)
    /\ nextId > ParticleCount + 1
    /\ \E i \in DOMAIN particles, j \in DOMAIN particles :
           i < j /\ EntriesFor(i, j) # {}
    /\ \E i \in DOMAIN particles, j \in DOMAIN particles :
           i < j /\ Apart(i, j) >= ConnectionDistance * FP

\* the step from this state to the next is a pointer move in which the host
\* calls applyMouseForces on the field, the pointer being active
ForcesCall ==
    /\ lastOp' = "mousemove"
    /\ cursorFollower /\ ~isTransitioning /\ particleSystem
    /\ isMouseOver'

\* distance of particle p to the pointer position used by that call
PointerGap(p) == Dist(mouseX' - p.x, mouseY' - p.y)

\* the velocity change of particles[i] in the step, and its component
\* along the direction from the pointer to the particle
DeltaV(i) == << particles'[i].vx - particles[i].vx, particles'[i].vy - particles[i].vy >>
Outward(i) ==
    DeltaV(i)[1] * (particles[i].x - mouseX') + DeltaV(i)[2] * (particles[i].y - mouseY')

AbsVal(n) == IF n < 0 THEN -n ELSE n

\* C14 as stated: in a call of applyMouseForces with the pointer active, the
\* velocity change of a particle closer to the pointer than repulsionRadius
\* does not point toward the pointer, and the velocity change of a particle at
\* a distance in [repulsionRadius, attractionRadius) does not point away
\* from it.
C14_RepelNearAttractFar ==
    [][ForcesCall =>
        \A i \in DOMAIN particles \cap DOMAIN particles' :
            LET d == PointerGap(particles[i])
            IN  /\ (0 < d /\ d < RepulsionRadius * FP) => Outward(i) >= 0
                /\ (RepulsionRadius * FP <= d /\ d < AttractionRadius * FP)
                       => Outward(i) <= 0
    ]_vars

\* C15: in one call of applyMouseForces a particle receives the repulsion
\* force alone, of size repulsionForce * (1 - d / repulsionRadius), when its
\* distance d to the pointer is below repulsionRadius; otherwise the
\* attraction force alone, of size attractionForce * (d / attractionRadius),
\* when d is below attractionRadius; otherwise no force.
C15_OneForcePerParticle ==
    [][ForcesCall =>
        \A i \in DOMAIN particles \cap DOMAIN particles' :
            LET d  == PointerGap(particles[i])
                rr == RepulsionRadius * FP
                ar == AttractionRadius * FP
                size == IF d < rr
                        THEN (((RepulsionForcePct * VelOne) \div 100) * (rr - d)) \div rr
                        ELSE IF d < ar
                        THEN (((AttractionForcePct * VelOne) \div 100) * d) \div ar
                        ELSE 0
                sx == IF d = 0 THEN size
                      ELSE (size * AbsVal(mouseX' - particles[i].x)) \div d
                sy == IF d = 0 THEN 0
                      ELSE (size * AbsVal(mouseY' - particles[i].y)) \div d
            IN  /\ AbsVal(DeltaV(i)[1]) = sx
                /\ AbsVal(DeltaV(i)[2]) = sy
    ]_vars

\* a pointer move has applied forces to a field with one particle inside the
\* repulsion radius and another beyond the attraction radius
C15_Witness ==
    /\ lastOp = "mousemove"
    /\ cursorFollower /\ ~isTransitioning /\ particleSystem /\ isMouseOver
    /\ \E i \in DOMAIN particles :
           LET d == Dist(mouseX - particles[i].x, mouseY - particles[i].y)
           IN  0 < d /\ d < RepulsionRadius * FP
    /\ \E i \in DOMAIN particles :
           Dist(mouseX - particles[i].x, mouseY - particles[i].y)
               >= AttractionRadius * FP

\* velocity v after friction, and after a bounce (truncated toward zero)
Slowed(v) == IF v >= 0 THEN (v * FrictionPct) \div 100
                       ELSE -(((-v) * FrictionPct) \div 100)
Bounced(v) == IF v >= 0 THEN -((v * BouncePct) \div 100)
                        ELSE ((-v) * BouncePct) \div 100

\* C16: a tick run while the pointer-active flag is false leaves in every
\* surviving particle exactly what the physics update alone produces from its
\* state before the tick (friction on vx, gravity then friction on vy, each
\* possibly reflected at an edge; the position advanced by that velocity or
\* set on an edge; remaining life lowered by the decay rate), and the field
\* keeps its order and loses only the particles the filter removed: the
\* applyMouseForces call of the tick changed nothing.
C16_InactivePointerNoForce ==
    [][(StepRan /\ ~isMouseOver) =>
        /\ Ids(particles') \cup removed' = Ids(particles)
        /\ \A i \in DOMAIN particles, j \in DOMAIN particles' :
              particles[i].id = particles'[j].id =>
                  LET p  == particles[i]
                      q  == particles'[j]
                      ax == Slowed(p.vx)
                      fy == Slowed(p.vy + (GravityPct * VelOne) \div 100)
                  IN  /\ q.vx \in { ax, Bounced(ax) }
                      /\ q.vy \in { fy, Bounced(fy) }
                      /\ q.x \in { p.x + Displacement(ax), 0, innerWidth * FP }
                      /\ q.y \in { p.y + Displacement(fy), 0, innerHeight * FP }
                      /\ q.life = p.life - p.decay
    ]_vars

\* a frame has run with the pointer inactive (after the pointer had moved and
\* left) while a particle lay within the attraction radius of the last
\* pointer position
C16_Witness ==
    /\ lastOp = "frame" /\ "step" \in Range(trace)
    /\ ~isMouseOver /\ moves > 0
    /\ \E i \in DOMAIN particles :
           LET d == Dist(mouseX - particles[i].x, mouseY - particles[i].y)
           IN  0 < d /\ d < AttractionRadius * FP

\* C17: a call of applyMouseForces with the pointer active leaves the length
\* and order of the particle list and, in every particle, the position, the
\* remaining life, the decay rate, the opacity and the connection list
\* unchanged; only vx and vy may differ.
C17_ForcesChangeVelocityOnly ==
    [][ForcesCall =>
        /\ IdSeq(particles') = IdSeq(particles)
        /\ \A i \in DOMAIN particles :
              [particles'[i] EXCEPT !.vx = 0, !.vy = 0] =
                  [particles[i] EXCEPT !.vx = 0, !.vy = 0]
    ]_vars

\* a pointer move has applied forces to a field with a particle at a
\* distance between the repulsion and the attraction radius
C17_Witness ==
    /\ lastOp = "mousemove"
    /\ cursorFollower /\ ~isTransitioning /\ particleSystem /\ isMouseOver
    /\ \E i \in DOMAIN particles :
           LET d == Dist(mouseX - particles[i].x, mouseY - particles[i].y)
           IN  RepulsionRadius * FP <= d /\ d < AttractionRadius * FP

\* C18 as stated: right after handleResize to a new viewport every particle
\* lies in [0, width] x [0, height] of the new viewport, and a particle that
\* already lay inside the new bounds has kept its position.
C18_ResizeClampsPositions ==
    [][(lastOp' = "resize" /\ constructed) =>
        /\ IdSeq(particles') = IdSeq(particles)
        /\ \A i \in DOMAIN particles' :
              /\ 0 <= particles'[i].x /\ particles'[i].x <= innerWidth' * FP
              /\ 0 <= particles'[i].y /\ particles'[i].y <= innerHeight' * FP
        /\ \A i \in DOMAIN particles \cap DOMAIN particles' :
              (/\ 0 <= particles[i].x /\ particles[i].x <= innerWidth' * FP
               /\ 0 <= particles[i].y /\ particles[i].y <= innerHeight' * FP)
                  => /\ particles'[i].x = particles[i].x
                     /\ particles'[i].y = particles[i].y
    ]_vars

\* C19 as stated: burst particles created with lifetime L ms are all gone
\* once the ticks run since the click amount to L ms of frames at 60 ticks
\* per 1000 ms (the click came right after start(), so these are the
\* callbacks counted after the tick of start()).
C19_BurstGoneAfterLifetime ==
    LET ticksPerLifetime == (ExplosionLifetime * 60) \div 1000
    IN  (clicks > 0 /\ frames - 1 >= ticksPerLifetime) =>
            \A i \in DOMAIN particles : particles[i].id <= ParticleCount

\* C20: no tick runs before start() (until the system is constructed and
\* started no animate() has run and no callback is registered); every
\* animate() that completes ends by registering the next callback; and once
\* start() has been called and while no tick fails, a further tick always
\* eventually runs (the count of callbacks run moves on from every value it
\* takes), also after the field has become empty.
C20_LoopRunsOnceStarted ==
    /\ [](~constructed => (frames = 0 /\ pending = 0 /\ trace = << >>))
    /\ []((Ticked /\ ~thrown) =>
             (trace # << >> /\ trace[Len(trace)] = "schedule" /\ pending > 0))
    /\ \A n \in 1..MaxFrames :
           []((lastCall = "start" /\ ~thrown /\ frames = n) => <>(frames # n))

\* a frame callback has run on an empty field, removed nothing and
\* registered the next callback
C20_Witness ==
    /\ lastOp = "frame" /\ ~thrown
    /\ particles = << >> /\ removed = {}
    /\ pending > 0

\* C21 as stated: every click event, anywhere on the document or on the main
\* button, creates exactly one explosion: explosion.particleCount new
\* particles (identities are handed out one per particle created).
C21_OneExplosionPerClick ==
    [][(lastOp' \in { "click", "buttonclick" } /\ constructed) =>
        nextId' = nextId + ExplosionCount]_vars

\* C22: a tick that raises an exception registers no callback (the callback
\* that ran it is used up and none replaces it), so failing ticks cannot
\* follow one another beyond the callbacks already pending; and when every
\* tick fails (the drawing context is missing) no callback is ever pending:
\* rescheduling has stopped with the first failing tick.
C22_FailingTicksBounded ==
    /\ [][(lastOp' \in TickOps /\ thrown') =>
             /\ "schedule" \notin Range(trace')
             /\ pending' = IF lastOp' = "frame" THEN pending - 1 ELSE pending
       ]_vars
    /\ []((constructed /\ ~has2d) => (thrown /\ pending = 0))

\* start() has been called twice on a system whose every tick fails: both
\* ticks failed and no callback is pending
C22_Witness ==
    /\ ~has2d
    /\ lastOp = "start" /\ thrown
    /\ frames = 2
    /\ pending = 0

PointerOps == { "mousemove", "mouseenter", "mouseleave" }

\* C23: the pointer-active flag is false until the first pointer event (also
\* right after construction); a pointer move or pointer enter sets it, a
\* pointer leave clears it and no other operation changes it, so that it
\* always tells whether the latest pointer event was a move or an enter; a
\* pointer move stores one of the event positions as the pointer position and
\* the former pointer position as the last one.
C23_FlagFollowsPointerEvents ==
    /\ []((~constructed \/ lastOp = "init") => ~isMouseOver)
    /\ [][/\ (constructed /\ lastOp' \in { "mousemove", "mouseenter" }) => isMouseOver'
          /\ (constructed /\ lastOp' = "mouseleave") => ~isMouseOver'
          /\ lastOp' \notin PointerOps => isMouseOver' = isMouseOver
          /\ (constructed /\ lastOp' = "mousemove") =>
                 /\ << mouseX', mouseY' >> \in Points
                 /\ << lastMouseX', lastMouseY' >> = << mouseX, mouseY >>
          /\ lastOp' # "mousemove" =>
                 << mouseX', mouseY' >> = << mouseX, mouseY >>
       ]_vars

\* the pointer has moved to the centre of the viewport and then left
C23_Witness ==
    /\ lastOp = "mouseleave"
    /\ ~isMouseOver
    /\ moves > 0
    /\ << mouseX, mouseY >> = << (innerWidth * FP) \div 2, (innerHeight * FP) \div 2 >>

\* what a step makes of coordinate c and velocity v (friction applied) on an
\* axis of the viewport whose far edge is at edge: the pair << c', v' >>
AxisAfterStep(c, v, edge) ==
    LET c1 == c + Displacement(v)
    IN  IF c1 < 0 THEN << 0, Bounced(v) >>
        ELSE IF c1 > edge THEN << edge, Bounced(v) >>
        ELSE << c1, v >>

\* C24: in a step (pointer inactive, so that the step starts from the
\* velocity the particle had), on each axis: when the move carries the
\* particle beyond an edge its coordinate becomes exactly that edge (0 or the
\* viewport size) and its velocity component becomes the opposite of the
\* bounce coefficient times the moved velocity, hence of opposite sign and not
\* larger; when the move leaves it inside, the coordinate is the moved one
\* and the velocity component is not reflected.
C24_BounceAtEdges ==
    [][(StepRan /\ ~isMouseOver) =>
        \A i \in DOMAIN particles, j \in DOMAIN particles' :
            particles[i].id = particles'[j].id =>
                LET p  == particles[i]
                    q  == particles'[j]
                    vx == Slowed(p.vx)
                    vy == Slowed(p.vy + (GravityPct * VelOne) \div 100)
                IN  /\ << q.x, q.vx >> = AxisAfterStep(p.x, vx, innerWidth * FP)
                    /\ << q.y, q.vy >> = AxisAfterStep(p.y, vy, innerHeight * FP)
                    /\ AbsVal(q.vx) <= AbsVal(vx) /\ AbsVal(q.vy) <= AbsVal(vy)
                    /\ q.vx # vx =>
                           /\ q.x \in { 0, innerWidth * FP }
                           /\ (vx > 0 => q.vx <= 0) /\ (vx < 0 => q.vx >= 0)
                    /\ q.vy # vy =>
                           /\ q.y \in { 0, innerHeight * FP }
                           /\ (vy > 0 => q.vy <= 0) /\ (vy < 0 => q.vy >= 0)
    ]_vars

\* a frame has bounced a burst particle off the left edge: it sits on the
\* edge and moves to the right
C24_Witness ==
    /\ lastOp = "frame" /\ "step" \in Range(trace)
    /\ ~isMouseOver
    /\ \E i \in DOMAIN particles :
           /\ particles[i].id > ParticleCount
           /\ particles[i].x = 0
           /\ particles[i].vx > 0

\* C25: with no click, no operation adds a particle to the field after
\* construction; once 200 ticks have run (the tick of start() included) the
\* field is empty, and it stays empty; the ticks run on the empty field keep
\* registering the next callback.
C25_BaselineDiesOut ==
    /\ []((clicks = 0 /\ frames >= 200) => particles = << >>)
    /\ [][(constructed /\ clicks' = 0) => Ids(particles') \subseteq Ids(particles)]_vars
    /\ []((clicks = 0 /\ lastOp = "frame" /\ particles = << >> /\ ~thrown)
              => pending > 0)

\* the 200th tick has removed the last baseline particle (the one with the
\* smallest decay rate) and registered the next callback
C25_Witness ==
    /\ clicks = 0
    /\ frames = 200
    /\ lastOp = "frame"
    /\ removed # {}
    /\ particles = << >>
    /\ pending > 0

\* C26: at most one frame callback of the particle system is pending at any
\* time, whatever the sequence of start(), stop() and ticks.
C26_OnePendingCallback == pending <= 1

\* C27: in every state between operations, every particle of the field has
\* life > 0 and alpha = life, so isDead() (alpha <= 0) and life <= 0 agree
\* (both false) for every particle, fresh explosion particles included.
C27_AliveAndAlphaIsLife ==
    \A i \in DOMAIN particles :
        /\ particles[i].life > 0
        /\ particles[i].alpha = particles[i].life
        /\ IsDead(particles[i]) <=> (particles[i].life <= 0)

\* a tick has just removed a baseline particle whose life reached 0 while
\* the explosion particles, created after the first tick, are still decaying
C27_Witness ==
    /\ lastOp = "frame"
    /\ removed # {}
    /\ \E i \in DOMAIN particles :
           /\ particles[i].id > ParticleCount
           /\ particles[i].life < LifeOne

\* position and velocity on one axis demanded of a particle that lies beyond
\* the far edge before a tick, as C28 states it: inside, velocity reflected
ReflectedInside(c, v, edge, c2, v2) ==
    c > edge => (0 <= c2 /\ c2 <= edge /\ v2 = Bounced(v))

\* the same as the code produces it: the particle moves first; it is put on
\* the edge and reflected only if it is still outside after moving
InsideAfterMove(c, v, edge, c2, v2) ==
    c > edge =>
        LET c1 == c + Displacement(v)
        IN  /\ 0 <= c2 /\ c2 <= edge
            /\ c1 > edge => (c2 = edge /\ v2 = Bounced(v))
            /\ c1 < 0 => (c2 = 0 /\ v2 = Bounced(v))
            /\ (0 <= c1 /\ c1 <= edge) => (c2 = c1 /\ v2 = v)

\* C28 as stated: a tick (pointer inactive) brings every particle that lies
\* beyond the far edge of the viewport back inside and reflects its velocity
\* component on that axis.
C28_ShrinkReflects ==
    [][(StepRan /\ ~isMouseOver) =>
        \A i \in DOMAIN particles, j \in DOMAIN particles' :
            particles[i].id = particles'[j].id =>
                LET p == particles[i]
                    q == particles'[j]
                    vx == Slowed(p.vx)
                    vy == Slowed(p.vy + (GravityPct * VelOne) \div 100)
                IN  /\ ReflectedInside(p.x, vx, innerWidth * FP, q.x, q.vx)
                    /\ ReflectedInside(p.y, vy, innerHeight * FP, q.y, q.vy)
    ]_vars

\* C28: a resize moves no particle, so after a shrink a particle may lie
\* beyond the new far edge; the first tick that follows (pointer inactive)
\* leaves it inside the viewport; its velocity component on that axis is
\* reflected exactly when the particle is still outside after this tick's
\* movement, otherwise the particle keeps the position it moved to and its
\* velocity is not reflected.
C28_ShrinkBringsInside ==
    /\ [][lastOp' = "resize" => particles' = particles]_vars
    /\ [][(StepRan /\ ~isMouseOver) =>
           \A i \in DOMAIN particles, j \in DOMAIN particles' :
               particles[i].id = particles'[j].id =>
                   LET p == particles[i]
                       q == particles'[j]
                       vx == Slowed(p.vx)
                       vy == Slowed(p.vy + (GravityPct * VelOne) \div 100)
                   IN  /\ InsideAfterMove(p.x, vx, innerWidth * FP, q.x, q.vx)
                       /\ InsideAfterMove(p.y, vy, innerHeight * FP, q.y, q.vy)
       ]_vars

\* the tick after a shrink: a particle that was beyond the far edge has moved
\* inside on its own velocity (x axis, not reflected) and was put on the edge
\* on the other axis
C28_Witness ==
    /\ lastOp = "frame" /\ "step" \in Range(trace)
    /\ ~isMouseOver
    /\ \E i \in DOMAIN particles :
           /\ particles[i].vx < 0
           /\ particles[i].x < innerWidth * FP
           /\ particles[i].x - Displacement(particles[i].vx) > innerWidth * FP
           /\ particles[i].y = innerHeight * FP

\* C29, the part about the guard: a click on the main button made while
\* isTransitioning is true creates no explosion (the field and the particle
\* identities handed out are unchanged) and does not restart the transition.
C29_GuardedClickIgnored ==
    [][(lastOp' = "buttonclick" /\ isTransitioning) =>
        /\ particles' = particles
        /\ nextId' = nextId
        /\ tlActive' = tlActive
        /\ isTransitioning'
    ]_vars

\* C30: in the runs where initAnimations is called once and before any
\* pauseAnimations / resumeAnimations: at most one frame callback is pending;
\* animationFrameId is null exactly when the last call was pauseAnimations,
\* and then no callback is pending, otherwise it is the handle of the one
\* pending callback; no frame callback runs while the loop is paused; and
\* resumeAnimations called while the loop is running starts no loop.
C30_PauseResumeOneLoop ==
    /\ [](animPhase = "started" =>
            /\ Cardinality(animPending) <= 1
            /\ (animationFrameId = 0) <=> (animLast = "pause")
            /\ animationFrameId = 0 => animPending = {}
            /\ animationFrameId # 0 => animPending = { animationFrameId })
    /\ [][(animPhase = "started" /\ animLast = "pause") =>
            ~(animOp' = "frame" /\ animHandle' # animHandle)]_vars
    /\ [][(animPhase = "started" /\ animOp' = "resume" /\ animationFrameId # 0) =>
            /\ animLoops' = animLoops
            /\ animPending' = animPending
            /\ animationFrameId' = animationFrameId]_vars

\* the loop was paused and resumed (startAnimationLoop has run twice) and a
\* frame has run since: one callback is pending
C30_Witness ==
    /\ animPhase = "started"
    /\ animLoops = 2
    /\ animOp = "frame"
    /\ animPending = { animationFrameId }
    /\ animationFrameId = animHandle

====
